---- MODULE Spec2Model ----
(***************************************************************************)
(* A model of pynowplaying.py: the capture-identify-reconcile loop         *)
(* (audio_loop), the multi-provider orchestrator                           *)
(* (identify_track_multiple_services), the album art fallback chain        *)
(* (fetch_album_art) and the Flask handlers (index, nowplaying_api) that   *)
(* read the globals current_track and track_history from another thread.   *)
(*                                                                         *)
(* Python strings are TLA+ strings (\o is string concatenation), a dict is *)
(* a record, a dict key that may be absent is a field that may be absent   *)
(* (Get), a list is a sequence.  None is the string "None" where a string  *)
(* is expected (no string of the model is spelled that way) and the record *)
(* NoTrack where a dict is expected.                                       *)
(***************************************************************************)
EXTENDS Integers, Sequences, FiniteSets, TLC

VARIABLES
    flags,                    \* SHAZAMIO_AVAILABLE and the USE_* switches
    current_track,            \* global current_track
    track_history,            \* global track_history
    last_identified_track,    \* global last_identified_track
    consecutive_match_count,  \* global consecutive_match_count
    pc,                       \* position of the audio_loop thread
    wav_data,                 \* audio_loop: wav_data
    services,                 \* identify_track_multiple_services: services
    svc_idx,                  \* position of its for loop over services
    track_info,               \* the orchestrator's result / audio_loop: track_info
    art_idx,                  \* position of fetch_album_art's for loop over sources
    calls,                    \* providers invoked so far in this cycle, in order
    art_calls,                \* art sources invoked so far in this cycle, in order
    delay,                    \* argument of the last time.sleep of audio_loop
    now,                      \* readings of the wall clock so far
    script,                   \* answers a scripted room has still to give
    gw_pc,                    \* position of the Flask request thread
    gw_track,                 \* the handler's reference to a current_track dict
    gw_history,               \* the handler's reference to a track_history list
    gw_alias,                 \* TRUE while that list is still the one track_history names
    served,                   \* requests answered so far
    recording,                \* record_chunk: what the device delivered, until wav_data is tested
    promoted,                 \* this cycle has taken the branch of line 1671
    prev,                     \* how the previous cycle ended
    heard,                    \* how the last cycle that reached the orchestrator ended
    interrupted               \* Ctrl+C has been pressed

vars == <<flags, current_track, track_history, last_identified_track,
          consecutive_match_count, pc, wav_data, services, svc_idx, track_info,
          art_idx, calls, art_calls, delay, now, script, gw_pc, gw_track,
          gw_history, gw_alias, served, recording, promoted, prev, heard,
          interrupted>>

globals == <<current_track, track_history, last_identified_track,
             consecutive_match_count>>
gateway == <<gw_pc, gw_track, gw_history, gw_alias, served>>
locals  == <<wav_data, services, svc_idx, track_info, art_idx, calls, art_calls>>
world   == <<now, script>>

-----------------------------------------------------------------------------
(* Values *)

None == "None"
NoTrack == [none |-> TRUE]

\* Python truth of a string-or-None value.
Truthy(v) == v # None /\ v # ""

\* dict.get(key, default)
Get(d, key, default) == IF key \in DOMAIN d THEN d[key] ELSE default

Min(a, b) == IF a <= b THEN a ELSE b

\* Number of entries audio_loop keeps in track_history.
HistoryCap == 20

\* The three sleeps of audio_loop, in seconds.
RetryDelay == 2
NormalDelay == 8
ExtendedDelay == 30

-----------------------------------------------------------------------------
(* Bounds of the model *)

\* Track changes a short run goes through before the room stays on one track.
MaxChanges == 1
\* Times in a row one track is heard before something else is.
MaxRepeat == 3
\* Requests the Flask thread answers in one run.
MaxRequests == 1

-----------------------------------------------------------------------------
(* The surroundings of the program: what the capture device, the           *)
(* recognition services, the art services and the wall clock may answer.   *)
(* A room fixes these sets for one specification.                          *)

\* Outcomes of the capture in record_chunk: music, a recording of low dynamic
\* range, one without variation over time, one np.corrcoef fails on, silence
\* of zeros only, and an error of the device.
Captures == {"audio", "low_dynamic", "flat", "corr_error", "all_zero", "device_error"}

\* Outcomes of one art lookup.
ArtOutcomes == {"found", "empty", "error"}

\* Outcomes of a recognition service that are not a recognised track.
Failures ==
    { [kind |-> k] : k \in {"NoMatch", "RateLimited", "AuthExpired", "PaymentRequired",
                            "Timeout", "TransientError", "TempFileError"} }

\* A recognised track as the service reports it.  Every key may be absent.
Recognised(artist, title, album, art) ==
    [kind |-> "Matched", artist |-> artist, title |-> title,
     album |-> album, album_art |-> art]

Song1(svc) == Recognised("Artist A", "Song 1", "Album 1 (" \o svc \o ")", svc \o "/song1.jpg")
Song2(svc) == Recognised("Artist B", "Song 2", "Album 2 (" \o svc \o ")", svc \o "/song2.jpg")
Song3(svc) == Recognised("Artist A", "Song 3", "Album 1 (" \o svc \o ")", svc \o "/song3.jpg")

\* r without the keys in drop.
Without(r, drop) == [k \in (DOMAIN r) \ drop |-> r[k]]

Switches ==
    [SHAZAMIO_AVAILABLE : BOOLEAN, USE_SHAZAM_API : BOOLEAN, USE_AUDD_API : BOOLEAN,
     USE_ACOUSTID_FALLBACK : BOOLEAN, USE_MUSICBRAINZ_DIRECT : {TRUE}]

\* The values the source sets (lines 96-99), with shazamio installed.
DefaultFlags ==
    [SHAZAMIO_AVAILABLE |-> TRUE, USE_SHAZAM_API |-> TRUE, USE_AUDD_API |-> TRUE,
     USE_ACOUSTID_FALLBACK |-> TRUE, USE_MUSICBRAINZ_DIRECT |-> TRUE]

\* A short run in a room where every switch setting and every outcome of
\* every service can happen, with and without artwork.
ShortRoom ==
    [flagsets |-> Switches \cup {[DefaultFlags EXCEPT !.USE_MUSICBRAINZ_DIRECT = FALSE]},
     captures |-> Captures,
     responses |-> [svc \in {"Shazam", "AudD", "AcoustID"} |->
         Failures
         \cup {Song1(svc), Without(Song1(svc), {"album_art", "album"}),
               Song2(svc), Without(Song2(svc), {"album_art"}),
               Without(Song1(svc), {"artist"}),
               Recognised("Artist A", "", "Album 1", None)}],
     \* AcoustID recordings: without an id, or with one that MusicBrainz
     \* answers in full, without artist or title, or not at all
     mb |-> {"no_mbid", "ok", "empty", "error"},
     art |-> ArtOutcomes,
     script |-> <<>>,
     changes |-> MaxChanges]

\* A long run in a room where two tracks of one artist alternate, so that
\* track_history fills up and overflows.  Shazam is rate limited, AudD
\* recognises the tracks, the second one without artwork, and no art service
\* has any.
LongRoom ==
    [flagsets |-> {DefaultFlags},
     captures |-> {"audio", "all_zero"},
     responses |->
         [svc \in {"Shazam", "AudD", "AcoustID"} |->
             IF svc = "AudD"
             THEN {[kind |-> "NoMatch"], Song1(svc), Without(Song3(svc), {"album_art"})}
             ELSE IF svc = "Shazam" THEN {[kind |-> "RateLimited"]}
             ELSE {[kind |-> "NoMatch"]}],
     mb |-> {"no_mbid"},
     art |-> {"empty"},
     script |-> <<>>,
     changes |-> HistoryCap + 2]

\* The scenario of three cycles: the first service asked recognises
\* (Artist A, Song 1), then (Artist A, Song 1) again, then (Artist B, Song 2).
ScenarioRoom ==
    [flagsets |-> {DefaultFlags},
     captures |-> {"audio"},
     responses |-> [svc \in {"Shazam", "AudD", "AcoustID"} |-> {}],
     mb |-> {"no_mbid"},
     art |-> {"empty"},
     script |-> <<Song1("Shazam"), Song1("Shazam"), Song2("Shazam")>>,
     changes |-> MaxChanges + 1]

\* A room where a call may never return: the device never delivers, or a
\* provider that is called without a timeout never answers.  AudD, called
\* with timeout=30, runs into its timeout.
HangRoom ==
    [flagsets |-> {DefaultFlags},
     captures |-> {"audio", "all_zero"},
     responses |->
         [svc \in {"Shazam", "AudD", "AcoustID"} |->
             IF svc = "AudD"
             THEN {[kind |-> "Timeout"], Without(Song1(svc), {"album_art"})}
             ELSE {[kind |-> "NoMatch"]}],
     mb |-> {"no_mbid"},
     art |-> {"empty", "error", "found"},
     script |-> <<>>,
     changes |-> MaxChanges]

\* A room where Ctrl+C is pressed once, at any moment.
SignalRoom == [HangRoom EXCEPT !.captures = {"audio", "corr_error", "all_zero"}]

\* Two tracks whose artist and title differ but make the same string when
\* joined by " - ": the first is heard once, then the second twice.
Live1 == Recognised("Artist A - Song 1", "Live", "Album 1", "Shazam/live1.jpg")
Live2 == Recognised("Artist A", "Song 1 - Live", "Album 2", "Shazam/live2.jpg")

CollisionRoom ==
    [ScenarioRoom EXCEPT !.script = <<Live1, Live2, Live2>>]

\* A room where every switch setting, every outcome of the capture, every
\* failure of every service and of every art source can happen, and one track
\* is there to be recognised.
LiveRoom ==
    [flagsets |-> Switches,
     captures |-> Captures,
     responses |-> [svc \in {"Shazam", "AudD", "AcoustID"} |->
         Failures \cup {Without(Song1(svc), {"album_art"})}],
     mb |-> {"no_mbid", "error"},
     art |-> ArtOutcomes,
     script |-> <<>>,
     changes |-> MaxChanges]

\* A room where what Shazam recognises always lacks the artist or the title
\* (an empty string or a JSON null), AudD sometimes recognises nothing but
\* empty strings, and AcoustID recognises a track or nothing.
IncompleteRoom ==
    [flagsets |-> {DefaultFlags},
     captures |-> {"audio", "all_zero"},
     responses |->
         [svc \in {"Shazam", "AudD", "AcoustID"} |->
             CASE svc = "Shazam" ->
                    {Recognised("Artist A", "", "Album 1", None),
                     Recognised("", "Song 1", "Album 1", "Shazam/song1.jpg"),
                     Recognised(None, "Song 1", "Album 1", "Shazam/song1.jpg")}
               [] svc = "AudD" ->
                    {Recognised("", "", "Album 1", "AudD/song1.jpg"),
                     Song1(svc), Song2(svc), [kind |-> "NoMatch"]}
               [] svc = "AcoustID" ->
                    {Song1(svc), [kind |-> "NoMatch"]}],
     mb |-> {"no_mbid"},
     art |-> {"empty", "found"},
     script |-> <<>>,
     changes |-> MaxChanges + 1]

\* A room where every art service is down: each lookup ends in an error.
\* Every recognition service may match without artwork, and Shazam may
\* match with it.
ArtDownRoom ==
    [flagsets |-> {DefaultFlags},
     captures |-> {"audio", "all_zero"},
     responses |->
         [svc \in {"Shazam", "AudD", "AcoustID"} |->
             {[kind |-> "NoMatch"], Without(Song1(svc), {"album_art"})}
             \cup (IF svc = "Shazam" THEN {Song2(svc)} ELSE {})],
     mb |-> {"no_mbid", "ok"},
     art |-> {"error"},
     script |-> <<>>,
     changes |-> MaxChanges + 1]

\* A room where only the fingerprint provider recognises anything: AcoustID
\* always has a recording with artist and title, with or without an album,
\* and the MusicBrainz lookup for it is not made, succeeds, comes back
\* without artist or title, or fails.
FingerprintRoom ==
    [flagsets |-> {[DefaultFlags EXCEPT !.USE_MUSICBRAINZ_DIRECT = d,
                                        !.USE_ACOUSTID_FALLBACK = a] :
                       d \in BOOLEAN, a \in BOOLEAN},
     captures |-> {"audio", "all_zero"},
     responses |->
         [svc \in {"Shazam", "AudD", "AcoustID"} |->
             IF svc = "AcoustID"
             THEN {Song1(svc), Without(Song2(svc), {"album"})}
             ELSE {[kind |-> "NoMatch"]}],
     mb |-> {"no_mbid", "ok", "empty", "error"},
     art |-> {"empty", "found"},
     script |-> <<>>,
     changes |-> MaxChanges + 1]

\* What the service svc may answer now.
Responses(room, svc) ==
    IF room.script = <<>> THEN room.responses[svc]
    ELSE IF script = <<>> THEN {} ELSE {Head(script)}

\* "%H:%M:%S" of the n-th reading of the clock: the readings of one run are
\* a second apart.
strftime(n) == IF n < 10 THEN "12:00:0" \o ToString(n) ELSE "12:00:" \o ToString(n)

-----------------------------------------------------------------------------
(* Recognition providers: the value each lookup function returns for an    *)
(* outcome of its service.  Raised stands for an exception leaving the     *)
(* function.                                                               *)

Raised == [raised |-> TRUE]

IsDict(v) == v # NoTrack /\ v # Raised

lookup_shazam(f, resp) ==
    IF ~f.SHAZAMIO_AVAILABLE \/ ~f.USE_SHAZAM_API THEN NoTrack
    ELSE IF resp.kind # "Matched" THEN NoTrack
    ELSE LET artist == Get(resp, "artist", "Unknown Artist")
             title  == Get(resp, "title", "Unknown Title")
         IN  IF artist # "Unknown Artist" /\ title # "Unknown Title"
             THEN [artist |-> artist, title |-> title, service |-> "Shazam",
                   album_art |-> Get(resp, "album_art", None),
                   album |-> Get(resp, "album", "Unknown Album")]
             ELSE NoTrack

lookup_audd_api(resp) ==
    IF resp.kind \in {"RateLimited", "AuthExpired", "PaymentRequired"} THEN NoTrack
    ELSE IF resp.kind # "Matched" THEN NoTrack
    ELSE LET artist == Get(resp, "artist", "Unknown Artist")
             title  == Get(resp, "title", "Unknown Title")
         IN  IF artist # "Unknown Artist" /\ title # "Unknown Title"
             THEN [artist |-> artist, title |-> title, service |-> "AudD",
                   album_art |-> Get(resp, "album_art", None),
                   album |-> Get(resp, "album", "Unknown Album")]
             ELSE NoTrack

lookup_musicbrainz_direct(mb, artist, title) ==
    IF mb = "ok"
    THEN [artist |-> artist, title |-> title, service |-> "MusicBrainz",
          album_art |-> None, mbid |-> "mbid"]
    ELSE NoTrack

\* lookup_acoustid that gives up when the MusicBrainz lookup it made has
\* returned nothing.
lookup_acoustid_mb_required(f, resp, mb) ==
    IF resp.kind # "Matched" THEN NoTrack
    ELSE LET artist == Get(resp, "artist", "")
             title  == Get(resp, "title", "")
             mbid   == IF mb = "no_mbid" THEN "" ELSE "mbid"
             mb_result == lookup_musicbrainz_direct(mb, artist, title)
         IN  IF Truthy(artist) /\ Truthy(title)
             THEN IF Truthy(mbid) /\ f.USE_MUSICBRAINZ_DIRECT
                  THEN mb_result
                  ELSE [artist |-> artist, title |-> title, service |-> "AcoustID",
                        album_art |-> None,
                        album |-> Get(resp, "album", "Unknown Album"),
                        mbid |-> mbid]
             ELSE NoTrack

lookup_acoustid(f, resp, mb) ==
    IF resp.kind # "Matched" THEN NoTrack
    ELSE LET artist == Get(resp, "artist", "")
             title  == Get(resp, "title", "")
             mbid   == IF mb = "no_mbid" THEN "" ELSE "mbid"
             mb_result == lookup_musicbrainz_direct(mb, artist, title)
         IN  IF Truthy(artist) /\ Truthy(title)
             THEN IF Truthy(mbid) /\ f.USE_MUSICBRAINZ_DIRECT /\ mb_result # NoTrack
                  THEN mb_result
                  ELSE [artist |-> artist, title |-> title, service |-> "AcoustID",
                        album_art |-> None,
                        album |-> Get(resp, "album", "Unknown Album"),
                        mbid |-> mbid]
             ELSE NoTrack

lookup_acoustid_from_wav(f, resp, mb) ==
    IF resp.kind = "TempFileError" THEN Raised
    ELSE lookup_acoustid(f, resp, mb)

\* service_func(wav_data) for the entry of services called name.
CallProvider(name, f, resp, mb) ==
    CASE name = "Shazam"   -> lookup_shazam(f, resp)
      [] name = "AudD"     -> lookup_audd_api(resp)
      [] name = "AcoustID" -> lookup_acoustid_from_wav(f, resp, mb)

\* list.insert(i, x)
ListInsert(s, i, x) ==
    LET k == Min(i, Len(s)) IN SubSeq(s, 1, k) \o <<x>> \o SubSeq(s, k + 1, Len(s))

\* BuildServices with the move of lines 1298-1301 putting AcoustID first.
BuildServicesPromote(f) ==
    LET s1 == IF f.SHAZAMIO_AVAILABLE /\ f.USE_SHAZAM_API THEN <<"Shazam">> ELSE <<>>
        s2 == IF f.USE_AUDD_API THEN Append(s1, "AudD") ELSE s1
        s3 == IF f.USE_ACOUSTID_FALLBACK THEN Append(s2, "AcoustID") ELSE s2
    IN  IF ~f.SHAZAMIO_AVAILABLE /\ f.USE_ACOUSTID_FALLBACK /\ Len(s3) >= 2
        THEN ListInsert(SubSeq(s3, 1, Len(s3) - 1), 0, s3[Len(s3)])
        ELSE s3

\* BuildServices with the move of lines 1298-1301 inserting the last entry
\* without popping it.
BuildServicesNoPop(f) ==
    LET s1 == IF f.SHAZAMIO_AVAILABLE /\ f.USE_SHAZAM_API THEN <<"Shazam">> ELSE <<>>
        s2 == IF f.USE_AUDD_API THEN Append(s1, "AudD") ELSE s1
        s3 == IF f.USE_ACOUSTID_FALLBACK THEN Append(s2, "AcoustID") ELSE s2
    IN  IF ~f.SHAZAMIO_AVAILABLE /\ f.USE_ACOUSTID_FALLBACK /\ Len(s3) >= 2
        THEN ListInsert(s3, 1, s3[Len(s3)])
        ELSE s3

\* The services list identify_track_multiple_services builds, by name.
BuildServices(f) ==
    LET s1 == IF f.SHAZAMIO_AVAILABLE /\ f.USE_SHAZAM_API THEN <<"Shazam">> ELSE <<>>
        s2 == IF f.USE_AUDD_API THEN Append(s1, "AudD") ELSE s1
        s3 == IF f.USE_ACOUSTID_FALLBACK THEN Append(s2, "AcoustID") ELSE s2
    IN  IF ~f.SHAZAMIO_AVAILABLE /\ f.USE_ACOUSTID_FALLBACK /\ Len(s3) >= 2
        THEN ListInsert(SubSeq(s3, 1, Len(s3) - 1), 1, s3[Len(s3)])
        ELSE s3

\* The test of line 1307 without its last part: a value with an artist
\* counts as a match.
IsMatchArtistOnly(result) ==
    /\ IsDict(result)
    /\ Truthy(Get(result, "artist", None))

\* The test of line 1307: the provider's value counts as a match.
IsMatch(result) ==
    /\ IsDict(result)
    /\ Truthy(Get(result, "artist", None))
    /\ Truthy(Get(result, "title", None))

(* Art providers *)

Sources == <<"iTunes", "Last.fm", "MusicBrainz">>

fetch_itunes_album_art(o) == IF o = "found" THEN "iTunes/art.jpg" ELSE None
fetch_lastfm_album_art(o) == IF o = "found" THEN "Last.fm/art.jpg" ELSE None
fetch_musicbrainz_album_art(o) == IF o = "found" THEN "MusicBrainz/art.jpg" ELSE None

\* fetch_func(artist, title) for the entry of sources called name.
CallSource(name, o) ==
    CASE name = "iTunes"      -> fetch_itunes_album_art(o)
      [] name = "Last.fm"     -> fetch_lastfm_album_art(o)
      [] name = "MusicBrainz" -> fetch_musicbrainz_album_art(o)

(* record_chunk: the WAV bytes, or None *)

\* The correlation check without its try/except: an error of np.corrcoef
\* leaves the check.
CorrelationCheckUncaught(capture) ==
    IF capture = "corr_error" THEN "raised" ELSE "printed"

\* The correlation check of the two channels, inside its own try/except.
CorrelationCheck(capture) ==
    IF capture = "corr_error" THEN "calculation failed" ELSE "printed"

\* AUDIO CONTENT ANALYSIS: dynamic range, variation over time and channel
\* correlation are printed; no branch of it returns.
AudioAnalysis(capture) ==
    IF CorrelationCheck(capture) = "raised" THEN "raised" ELSE "printed"

record_chunk(capture) ==
    IF capture = "device_error" THEN None          \* sd.rec raises: outer except
    ELSE IF capture = "all_zero" THEN None
    ELSE IF AudioAnalysis(capture) = "raised" THEN None   \* outer except
    ELSE "wav"

(* Reconciliation *)

track_id(t) == t.artist \o " - " \o t.title

\* track_changed answering that every identified track is a change.
track_changed_always(new_track, cur) == new_track # NoTrack

track_changed(new_track, cur) ==
    IF new_track = NoTrack THEN FALSE
    ELSE \/ Get(new_track, "artist", None) # Get(cur, "artist", None)
         \/ Get(new_track, "title", None) # Get(cur, "title", None)

\* NewCurrent that does not take the album from the match.
NewCurrentNoAlbum(t, now_str) ==
    [artist |-> t.artist, title |-> t.title, time |-> now_str,
     album_art |-> Get(t, "album_art", ""),
     album |-> "Unknown Album"]

\* The dict audio_loop assigns to current_track on a track change.
NewCurrent(t, now_str) ==
    [artist |-> t.artist, title |-> t.title, time |-> now_str,
     album_art |-> Get(t, "album_art", ""),
     album |-> Get(t, "album", "Unknown Album")]

\* track_history[:21]
TruncatedLate(h) == SubSeq(h, 1, Min(HistoryCap + 1, Len(h)))

\* track_history[:20]
Truncated(h) == SubSeq(h, 1, Min(HistoryCap, Len(h)))

EmptyTrack == [artist |-> "", title |-> "", time |-> "", album_art |-> "", album |-> ""]

-----------------------------------------------------------------------------
(* Initial state: the module's globals as lines 107-111 set them, both     *)
(* threads about to start.                                                 *)

InitIn(room) ==
    /\ flags \in room.flagsets
    /\ current_track = EmptyTrack
    /\ track_history = <<>>
    /\ last_identified_track = None
    /\ consecutive_match_count = 0
    /\ pc = "record"
    /\ wav_data = None
    /\ services = <<>>
    /\ svc_idx = 0
    /\ track_info = NoTrack
    /\ art_idx = 0
    /\ calls = <<>>
    /\ art_calls = <<>>
    /\ delay = 0
    /\ now = 0
    /\ script = room.script
    /\ gw_pc = "idle"
    /\ gw_track = NoTrack
    /\ gw_history = <<>>
    /\ gw_alias = FALSE
    /\ served = 0
    /\ recording = None
    /\ promoted = FALSE
    /\ prev = [outcome |-> "none"]
    /\ heard = [outcome |-> "none"]
    /\ interrupted = FALSE

\* How a cycle ended: without audio, without a match, or with the match the
\* orchestrator returned.
Outcome(wav, result) ==
    IF ~Truthy(wav) THEN [outcome |-> "no_audio"]
    ELSE IF result = NoTrack THEN [outcome |-> "no_match"]
    ELSE [outcome |-> "match", artist |-> result.artist, title |-> result.title]

\* The locals of one cycle are dead once the cycle has slept.
EndCycle ==
    /\ prev' = Outcome(wav_data, track_info)
    /\ heard' = IF Truthy(wav_data) THEN Outcome(wav_data, track_info) ELSE heard
    /\ recording' = None
    /\ promoted' = FALSE
    /\ pc' = "record"
    /\ wav_data' = None
    /\ services' = <<>>
    /\ svc_idx' = 0
    /\ track_info' = NoTrack
    /\ art_idx' = 0
    /\ calls' = <<>>
    /\ art_calls' = <<>>

\* What keeps a run finite: the room changes track a bounded number of
\* times and repeats one track a bounded number of times in a row.
Audible(room, result) ==
    /\ track_changed(result, current_track) => now < room.changes
    /\ track_id(result) = last_identified_track => consecutive_match_count < MaxRepeat

-----------------------------------------------------------------------------
(* audio_loop, one action per step *)

\* wav_data = record_chunk(device_index).  The recording lasts CHUNK_SECONDS
\* (15 s): a request that is being answered has returned before a recording
\* that starts now has ended.
RecordChunk(room) ==
    /\ pc = "record"
    /\ gw_pc = "idle"
    /\ room.script # <<>> => script # <<>>
    /\ \E capture \in room.captures :
         /\ recording' = capture
         /\ wav_data' = record_chunk(capture)
    /\ pc' = "gate"
    /\ UNCHANGED <<flags, heard, interrupted, promoted, prev, world, globals, gateway, services, svc_idx, track_info, art_idx,
                   calls, art_calls, delay>>

\* NoAudio without the `continue` of line 1652: the cycle goes on to the
\* orchestrator.
NoAudioProceeds ==
    /\ pc = "gate"
    /\ ~Truthy(wav_data)
    /\ services' = BuildServices(flags)
    /\ svc_idx' = 1
    /\ pc' = "service"
    /\ UNCHANGED <<flags, heard, interrupted, recording, promoted, prev, world, globals, gateway, wav_data,
                   track_info, art_idx, calls, art_calls, delay>>

\* NoAudio with `return` in the place of `continue`: audio_loop ends.
NoAudioReturns ==
    /\ pc = "gate"
    /\ ~Truthy(wav_data)
    /\ pc' = "returned"
    /\ UNCHANGED <<flags, heard, interrupted, recording, promoted, prev, world, globals,
                   gateway, locals, delay>>

\* NoAudio sleeping as long as a cycle without a match.
NoAudioNormalDelay ==
    /\ pc = "gate"
    /\ ~Truthy(wav_data)
    /\ delay' = NormalDelay
    /\ EndCycle
    /\ UNCHANGED <<flags, interrupted, world, globals, gateway>>

\* NoAudio that resets the debounce state as a cycle without a match does.
NoAudioResets ==
    /\ pc = "gate"
    /\ ~Truthy(wav_data)
    /\ last_identified_track' = None
    /\ consecutive_match_count' = 0
    /\ delay' = RetryDelay
    /\ EndCycle
    /\ UNCHANGED <<flags, interrupted, world, current_track, track_history, gateway>>

\* if not wav_data: time.sleep(2); continue
NoAudio ==
    /\ pc = "gate"
    /\ ~Truthy(wav_data)
    /\ delay' = RetryDelay
    /\ EndCycle
    /\ UNCHANGED <<flags, interrupted, world, globals, gateway>>

\* sd.wait() (line 919) has no timeout: with a device that never delivers the
\* thread stays in it.
CaptureHangs ==
    /\ pc = "record"
    /\ pc' = "hung"
    /\ UNCHANGED <<flags, heard, interrupted, recording, promoted, prev, world, globals,
                   gateway, locals, delay>>

\* Ctrl+C while record_chunk is inside the try of lines 981-983: the bare
\* except of line 984 catches the KeyboardInterrupt, record_chunk prints that
\* the calculation failed and goes on to return the WAV bytes.
InterruptSwallowed(room) ==
    /\ pc = "record"
    /\ ~interrupted
    /\ interrupted' = TRUE
    /\ \E capture \in room.captures \ {"all_zero", "device_error"} :
         /\ recording' = capture
         /\ wav_data' = record_chunk("corr_error")
    /\ pc' = "gate"
    /\ UNCHANGED <<flags, heard, promoted, prev, world, globals, gateway, services,
                   svc_idx, track_info, art_idx, calls, art_calls, delay>>

\* Ctrl+C at any other moment: no handler on the way catches a
\* KeyboardInterrupt (they catch Exception), it leaves audio_loop and main
\* prints its goodbye (lines 1780-1782).
InterruptStops ==
    /\ pc \notin {"stopped", "hung"}
    /\ ~interrupted
    /\ interrupted' = TRUE
    /\ pc' = "stopped"
    /\ UNCHANGED <<flags, heard, recording, promoted, prev, world, globals, gateway,
                   locals, delay>>

\* identify_track_multiple_services is entered and builds its list.
StartIdentify ==
    /\ pc = "gate"
    /\ Truthy(wav_data)
    /\ services' = BuildServices(flags)
    /\ svc_idx' = 1
    /\ pc' = "service"
    /\ recording' = None
    /\ UNCHANGED <<flags, heard, interrupted, promoted, prev, world, globals, gateway, wav_data, track_info, art_idx, calls,
                   art_calls, delay>>

\* CallService without the test of line 1311: fetch_album_art is called for
\* every match.
CallServiceAlwaysArt(room) ==
    /\ pc = "service"
    /\ svc_idx <= Len(services)
    /\ \E resp \in Responses(room, services[svc_idx]), mb \in room.mb :
         LET result == CallProvider(services[svc_idx], flags, resp, mb) IN
         /\ calls' = Append(calls, services[svc_idx])
         /\ script' = IF script = <<>> THEN script ELSE Tail(script)
         /\ IF result = Raised
            THEN /\ svc_idx' = svc_idx + 1
                 /\ UNCHANGED <<pc, track_info, art_idx>>
            ELSE IF IsMatch(result)
            THEN /\ Audible(room, result)
                 /\ track_info' = result
                 /\ svc_idx' = svc_idx
                 /\ pc' = "art" /\ art_idx' = 1
            ELSE /\ svc_idx' = svc_idx + 1
                 /\ UNCHANGED <<pc, track_info, art_idx>>
    /\ UNCHANGED <<flags, heard, interrupted, recording, promoted, prev, now, globals, gateway, wav_data,
                   services, art_calls, delay>>

\* CallService with the `return result` of line 1323 missing: the loop goes
\* on to the next service after a match.
CallServiceNoReturn(room) ==
    /\ pc = "service"
    /\ svc_idx <= Len(services)
    /\ \E resp \in Responses(room, services[svc_idx]), mb \in room.mb :
         LET result == CallProvider(services[svc_idx], flags, resp, mb) IN
         /\ calls' = Append(calls, services[svc_idx])
         /\ script' = IF script = <<>> THEN script ELSE Tail(script)
         /\ svc_idx' = svc_idx + 1
         /\ IF IsMatch(result) /\ track_info = NoTrack
            THEN Audible(room, result) /\ track_info' = result
            ELSE UNCHANGED track_info
         /\ UNCHANGED <<pc, art_idx>>
    /\ UNCHANGED <<flags, heard, interrupted, recording, promoted, prev, now, globals, gateway, wav_data, services, art_calls, delay>>

\* CallService without the try/except of lines 1305-1330: an exception that
\* leaves a provider leaves audio_loop too.
CallServiceUncaught(room) ==
    /\ pc = "service"
    /\ svc_idx <= Len(services)
    /\ \E resp \in Responses(room, services[svc_idx]), mb \in room.mb :
         LET result == CallProvider(services[svc_idx], flags, resp, mb) IN
         /\ calls' = Append(calls, services[svc_idx])
         /\ script' = IF script = <<>> THEN script ELSE Tail(script)
         /\ IF result = Raised
            THEN /\ pc' = "crashed"
                 /\ UNCHANGED <<svc_idx, track_info, art_idx>>
            ELSE IF IsMatch(result)
            THEN /\ Audible(room, result)
                 /\ track_info' = result
                 /\ svc_idx' = svc_idx
                 /\ IF Truthy(Get(result, "album_art", None))
                    THEN pc' = "reconcile" /\ art_idx' = art_idx
                    ELSE pc' = "art" /\ art_idx' = 1
            ELSE /\ svc_idx' = svc_idx + 1
                 /\ UNCHANGED <<pc, track_info, art_idx>>
    /\ UNCHANGED <<flags, heard, interrupted, recording, promoted, prev, now, globals, gateway, wav_data, services, art_calls, delay>>

\* One pass of the for loop over services: the call, and what follows it.
CallService(room) ==
    /\ pc = "service"
    /\ svc_idx <= Len(services)
    /\ \E resp \in Responses(room, services[svc_idx]), mb \in room.mb :
         LET result == CallProvider(services[svc_idx], flags, resp, mb) IN
         /\ calls' = Append(calls, services[svc_idx])
         /\ script' = IF script = <<>> THEN script ELSE Tail(script)
         /\ IF result = Raised
            THEN \* except Exception: continue
                 /\ svc_idx' = svc_idx + 1
                 /\ UNCHANGED <<pc, track_info, art_idx>>
            ELSE IF IsMatch(result)
            THEN /\ Audible(room, result)
                 /\ track_info' = result
                 /\ svc_idx' = svc_idx
                 /\ IF Truthy(Get(result, "album_art", None))
                    THEN pc' = "reconcile" /\ art_idx' = art_idx
                    ELSE pc' = "art" /\ art_idx' = 1
            ELSE /\ svc_idx' = svc_idx + 1
                 /\ UNCHANGED <<pc, track_info, art_idx>>
    /\ UNCHANGED <<flags, heard, interrupted, recording, promoted, prev, now, globals, gateway, wav_data, services, art_calls, delay>>

\* The providers whose call is made without a timeout: shazam.recognize
\* (line 1109) and, for AcoustID, subprocess.run of fpcalc (line 1524).
NoTimeout == {"Shazam", "AcoustID"}

\* A provider called without a timeout never answers: the thread stays in
\* service_func(wav_data).
ProviderHangs ==
    /\ pc = "service"
    /\ svc_idx <= Len(services)
    /\ services[svc_idx] \in NoTimeout
    /\ calls' = Append(calls, services[svc_idx])
    /\ pc' = "hung"
    /\ UNCHANGED <<flags, heard, interrupted, recording, promoted, prev, world, globals,
                   gateway, wav_data, services, svc_idx, track_info, art_idx, art_calls,
                   delay>>

\* The for loop ends: return None
NoServiceLeft ==
    /\ pc = "service"
    /\ svc_idx > Len(services)
    /\ track_info' = NoTrack
    /\ pc' = "reconcile"
    /\ UNCHANGED <<flags, heard, interrupted, recording, promoted, prev, world, globals, gateway, wav_data, services, svc_idx, art_idx,
                   calls, art_calls, delay>>

\* FetchArt without the `return album_art_url` of line 1350: the loop goes on
\* and the last URL found is the one returned.
FetchArtNoReturn(room) ==
    /\ pc = "art"
    /\ art_idx <= Len(Sources)
    /\ \E o \in room.art :
         LET album_art_url == CallSource(Sources[art_idx], o) IN
         /\ art_calls' = Append(art_calls, Sources[art_idx])
         /\ art_idx' = art_idx + 1
         /\ IF Truthy(album_art_url)
            THEN track_info' = [track_info EXCEPT !.album_art = album_art_url]
            ELSE UNCHANGED track_info
         /\ UNCHANGED pc
    /\ UNCHANGED <<flags, heard, interrupted, recording, promoted, prev, world, globals, gateway, wav_data,
                   services, svc_idx, calls, delay>>

\* FetchArt with an error of an art source leaving fetch_album_art: the
\* except of line 1326 catches it and the orchestrator goes on to the next
\* recognition provider.
FetchArtRaises(room) ==
    /\ pc = "art"
    /\ art_idx <= Len(Sources)
    /\ \E o \in room.art :
         LET album_art_url == CallSource(Sources[art_idx], o) IN
         /\ art_calls' = Append(art_calls, Sources[art_idx])
         /\ IF o = "error"
            THEN /\ track_info' = NoTrack
                 /\ pc' = "service"
                 /\ svc_idx' = svc_idx + 1
                 /\ art_idx' = art_idx
            ELSE IF Truthy(album_art_url)
            THEN /\ track_info' = [track_info EXCEPT !.album_art = album_art_url]
                 /\ pc' = "reconcile"
                 /\ UNCHANGED <<art_idx, svc_idx>>
            ELSE /\ art_idx' = art_idx + 1
                 /\ UNCHANGED <<pc, track_info, svc_idx>>
    /\ UNCHANGED <<flags, heard, interrupted, recording, promoted, prev, world, globals,
                   gateway, wav_data, services, calls, delay>>

\* One pass of fetch_album_art's for loop over sources.
FetchArt(room) ==
    /\ pc = "art"
    /\ art_idx <= Len(Sources)
    /\ \E o \in room.art :
         LET album_art_url == CallSource(Sources[art_idx], o) IN
         /\ art_calls' = Append(art_calls, Sources[art_idx])
         /\ IF Truthy(album_art_url)
            THEN /\ track_info' = [track_info EXCEPT !.album_art = album_art_url]
                 /\ pc' = "reconcile"
                 /\ art_idx' = art_idx
            ELSE /\ art_idx' = art_idx + 1
                 /\ UNCHANGED <<pc, track_info>>
    /\ UNCHANGED <<flags, heard, interrupted, recording, promoted, prev, world, globals, gateway, wav_data, services, svc_idx, calls, delay>>

\* fetch_album_art returns None: the match is returned without artwork.
NoArtLeft ==
    /\ pc = "art"
    /\ art_idx > Len(Sources)
    /\ pc' = "reconcile"
    /\ UNCHANGED <<flags, heard, interrupted, recording, promoted, prev, world, globals, gateway, locals, delay>>

\* NoMatch that also puts the display back to the state before the first
\* track.
NoMatchClears ==
    /\ pc = "reconcile"
    /\ track_info = NoTrack
    /\ last_identified_track' = None
    /\ consecutive_match_count' = 0
    /\ current_track' = EmptyTrack
    /\ delay' = NormalDelay
    /\ EndCycle
    /\ UNCHANGED <<flags, interrupted, world, track_history, gateway>>

\* NoMatch without line 1711: the counter keeps its value.
NoMatchKeepsCount ==
    /\ pc = "reconcile"
    /\ track_info = NoTrack
    /\ last_identified_track' = None
    /\ delay' = NormalDelay
    /\ EndCycle
    /\ UNCHANGED <<flags, interrupted, world, current_track, track_history,
                   consecutive_match_count, gateway>>

\* else branch of `if track_info`
NoMatch ==
    /\ pc = "reconcile"
    /\ track_info = NoTrack
    /\ last_identified_track' = None
    /\ consecutive_match_count' = 0
    /\ delay' = NormalDelay
    /\ EndCycle
    /\ UNCHANGED <<flags, interrupted, world, current_track, track_history, gateway>>

\* Debounce without line 1667: a new identification leaves
\* last_identified_track as it was once it is set.
DebounceKeepsKey ==
    /\ pc = "reconcile"
    /\ track_info # NoTrack
    /\ IF last_identified_track = track_id(track_info)
       THEN /\ consecutive_match_count' = consecutive_match_count + 1
            /\ UNCHANGED last_identified_track
       ELSE /\ consecutive_match_count' = 1
            /\ last_identified_track' =
                  IF last_identified_track = None THEN track_id(track_info)
                  ELSE last_identified_track
    /\ pc' = "changed"
    /\ UNCHANGED <<flags, heard, interrupted, recording, promoted, prev, world,
                   current_track, track_history, gateway, locals, delay>>

\* Check for consecutive matches
Debounce ==
    /\ pc = "reconcile"
    /\ track_info # NoTrack
    /\ IF last_identified_track = track_id(track_info)
       THEN /\ consecutive_match_count' = consecutive_match_count + 1
            /\ UNCHANGED last_identified_track
       ELSE /\ consecutive_match_count' = 1
            /\ last_identified_track' = track_id(track_info)
    /\ pc' = "changed"
    /\ UNCHANGED <<flags, heard, interrupted, recording, promoted, prev, world, current_track, track_history, gateway, locals, delay>>

\* Promote without the test of line 1671: every match is promoted.
PromoteUnchecked ==
    /\ pc = "changed"
    /\ now' = now + 1
    /\ current_track' = NewCurrent(track_info, strftime(now'))
    /\ promoted' = TRUE
    /\ pc' = "insert"
    /\ UNCHANGED <<flags, heard, interrupted, recording, prev, script, track_history,
                   last_identified_track, consecutive_match_count, gateway, locals,
                   delay>>

\* Promote that updates the dict current_track names in place and has so far
\* written its first three keys: album_art and album are still those of the
\* track before.
PromoteInPlace ==
    /\ pc = "changed"
    /\ track_changed(track_info, current_track)
    /\ now' = now + 1
    /\ current_track' = [current_track EXCEPT !.artist = track_info.artist,
                                              !.title = track_info.title,
                                              !.time = strftime(now')]
    /\ promoted' = TRUE
    /\ pc' = "insert"
    /\ UNCHANGED <<flags, heard, interrupted, recording, prev, script, track_history,
                   last_identified_track, consecutive_match_count, gateway, locals,
                   delay>>

\* if track_changed(track_info): current_track = {...}
Promote ==
    /\ pc = "changed"
    /\ track_changed(track_info, current_track)
    /\ now' = now + 1
    /\ current_track' = NewCurrent(track_info, strftime(now'))
    /\ promoted' = TRUE
    /\ pc' = "insert"
    /\ UNCHANGED <<flags, heard, interrupted, recording, prev, script, track_history, last_identified_track,
                   consecutive_match_count, gateway, locals, delay>>

\* SameTrack that takes album and artwork from the new match.
SameTrackRefresh ==
    /\ pc = "changed"
    /\ ~track_changed(track_info, current_track)
    /\ current_track' = NewCurrent(track_info, current_track.time)
    /\ pc' = "backoff"
    /\ UNCHANGED <<flags, heard, interrupted, recording, promoted, prev, world, track_history,
                   last_identified_track, consecutive_match_count, gateway, locals, delay>>

\* else: same track detected
SameTrack ==
    /\ pc = "changed"
    /\ ~track_changed(track_info, current_track)
    /\ pc' = "backoff"
    /\ UNCHANGED <<flags, heard, interrupted, recording, promoted, prev, world, globals, gateway, locals, delay>>

\* HistoryInsert with append in the place of insert(0, ...).
HistoryAppend ==
    /\ pc = "insert"
    /\ track_history' = Append(track_history, current_track)
    /\ gw_history' = IF gw_alias THEN track_history' ELSE gw_history
    /\ pc' = "truncate"
    /\ UNCHANGED <<flags, heard, interrupted, recording, promoted, prev, world, current_track, last_identified_track,
                   consecutive_match_count, gw_pc, gw_track, gw_alias, served,
                   locals, delay>>

\* HistoryInsert with insert(1, ...): the new entry goes behind the front of
\* the list.
HistoryInsertSecond ==
    /\ pc = "insert"
    /\ track_history' = ListInsert(track_history, 1, current_track)
    /\ gw_history' = IF gw_alias THEN track_history' ELSE gw_history
    /\ pc' = "truncate"
    /\ UNCHANGED <<flags, heard, interrupted, recording, promoted, prev, world,
                   current_track, last_identified_track, consecutive_match_count,
                   gw_pc, gw_track, gw_alias, served, locals, delay>>

\* track_history.insert(0, current_track.copy()): the list changes in place,
\* also for a handler that holds it.
HistoryInsert ==
    /\ pc = "insert"
    /\ track_history' = ListInsert(track_history, 0, current_track)
    /\ gw_history' = IF gw_alias THEN track_history' ELSE gw_history
    /\ pc' = "truncate"
    /\ UNCHANGED <<flags, heard, interrupted, recording, promoted, prev, world, current_track, last_identified_track,
                   consecutive_match_count, gw_pc, gw_track, gw_alias, served,
                   locals, delay>>

\* track_history = track_history[:20]: the global names a new list.
HistoryTruncate ==
    /\ pc = "truncate"
    /\ track_history' = Truncated(track_history)
    /\ gw_alias' = FALSE
    /\ pc' = "reset"
    /\ UNCHANGED <<flags, heard, interrupted, recording, promoted, prev, world, current_track, last_identified_track,
                   consecutive_match_count, gw_pc, gw_track, gw_history, served,
                   locals, delay>>

\* Reset consecutive count on track change
ResetCount ==
    /\ pc = "reset"
    /\ consecutive_match_count' = 1
    /\ pc' = "backoff"
    /\ UNCHANGED <<flags, heard, interrupted, recording, promoted, prev, world, current_track, track_history, last_identified_track,
                   gateway, locals, delay>>

\* Backoff with the extended sleep from the third match in a row.
BackoffFromThird ==
    /\ pc = "backoff"
    /\ delay' = IF consecutive_match_count >= 3 THEN ExtendedDelay ELSE NormalDelay
    /\ EndCycle
    /\ UNCHANGED <<flags, interrupted, world, globals, gateway>>

\* Backoff with the extended sleep from the first match.
BackoffFromFirst ==
    /\ pc = "backoff"
    /\ delay' = IF consecutive_match_count >= 1 THEN ExtendedDelay ELSE NormalDelay
    /\ EndCycle
    /\ UNCHANGED <<flags, interrupted, world, globals, gateway>>

\* The sleep that ends a cycle with a match.
Backoff ==
    /\ pc = "backoff"
    /\ delay' = IF consecutive_match_count >= 2 THEN ExtendedDelay ELSE NormalDelay
    /\ EndCycle
    /\ UNCHANGED <<flags, interrupted, world, globals, gateway>>

-----------------------------------------------------------------------------
(* The Flask thread: index() and nowplaying_api() *)

\* index(): the argument track=current_track is evaluated
IndexLoadTrack ==
    /\ gw_pc = "idle"
    /\ served < MaxRequests
    /\ gw_track' = current_track
    /\ gw_pc' = "index_history"
    /\ UNCHANGED <<flags, heard, interrupted, recording, promoted, prev, world, globals, pc, locals, delay, gw_history, gw_alias, served>>

\* index(): the argument history=track_history is evaluated
IndexLoadHistory ==
    /\ gw_pc = "index_history"
    /\ gw_history' = track_history
    /\ gw_alias' = TRUE
    /\ gw_pc' = "index_render"
    /\ UNCHANGED <<flags, heard, interrupted, recording, promoted, prev, world, globals, pc, locals, delay, gw_track, served>>

\* IndexRender that empties the list it has shown.
IndexRenderClears ==
    /\ gw_pc = "index_render"
    /\ gw_pc' = "idle"
    /\ gw_track' = NoTrack
    /\ gw_history' = <<>>
    /\ gw_alias' = FALSE
    /\ served' = served + 1
    /\ track_history' = <<>>
    /\ UNCHANGED <<flags, heard, interrupted, recording, promoted, prev, world,
                   current_track, last_identified_track, consecutive_match_count, pc,
                   locals, delay>>

\* index(): the template has been rendered and the handler returns
IndexRender ==
    /\ gw_pc = "index_render"
    /\ gw_pc' = "idle"
    /\ gw_track' = NoTrack
    /\ gw_history' = <<>>
    /\ gw_alias' = FALSE
    /\ served' = served + 1
    /\ UNCHANGED <<flags, heard, interrupted, recording, promoted, prev, world, globals, pc, locals, delay>>

\* nowplaying_api(): the argument current_track is evaluated
ApiLoadTrack ==
    /\ gw_pc = "idle"
    /\ served < MaxRequests
    /\ gw_track' = current_track
    /\ gw_pc' = "api_respond"
    /\ UNCHANGED <<flags, heard, interrupted, recording, promoted, prev, world, globals, pc, locals, delay, gw_history, gw_alias, served>>

\* nowplaying_api(): jsonify has serialised the dict and the handler returns
ApiRespond ==
    /\ gw_pc = "api_respond"
    /\ gw_pc' = "idle"
    /\ gw_track' = NoTrack
    /\ served' = served + 1
    /\ UNCHANGED <<flags, heard, interrupted, recording, promoted, prev, world, globals, pc, locals, delay, gw_history, gw_alias>>

-----------------------------------------------------------------------------
(* Specifications *)

LoopStep(room) ==
    \/ RecordChunk(room)
    \/ NoAudio
    \/ StartIdentify
    \/ CallService(room)
    \/ NoServiceLeft
    \/ FetchArt(room)
    \/ NoArtLeft
    \/ NoMatch
    \/ Debounce
    \/ Promote
    \/ SameTrack
    \/ HistoryInsert
    \/ HistoryTruncate
    \/ ResetCount
    \/ Backoff

GatewayStep ==
    \/ IndexLoadTrack
    \/ IndexLoadHistory
    \/ IndexRender
    \/ ApiLoadTrack
    \/ ApiRespond

\* audio_loop alone, in the short room: what the loop does owes nothing to
\* the Flask thread, which writes no variable of the loop.
Init == InitIn(ShortRoom)
Next == LoopStep(ShortRoom)
Spec == Init /\ [][Next]_vars

\* audio_loop alone, in the room of every failure, with the thread always
\* going on to its next statement.
InitLive == InitIn(LiveRoom)
NextLive == LoopStep(LiveRoom)
SpecLive == InitLive /\ [][NextLive]_vars /\ WF_vars(NextLive)

\* Both threads, in the scenario room: the steps that can happen there.
ScenarioStep ==
    \/ RecordChunk(ScenarioRoom)
    \/ StartIdentify
    \/ CallService(ScenarioRoom)
    \/ Debounce
    \/ Promote
    \/ SameTrack
    \/ HistoryInsert
    \/ HistoryTruncate
    \/ ResetCount
    \/ Backoff

InitScenario == InitIn(ScenarioRoom)
NextScenario == ScenarioStep \/ GatewayStep
SpecScenario == InitScenario /\ [][NextScenario]_vars

\* Both threads, in the room of the two tracks with one joined string.
CollisionStep ==
    \/ RecordChunk(CollisionRoom)
    \/ StartIdentify
    \/ CallService(CollisionRoom)
    \/ Debounce
    \/ Promote
    \/ SameTrack
    \/ HistoryInsert
    \/ HistoryTruncate
    \/ ResetCount
    \/ Backoff

InitCollision == InitIn(CollisionRoom)
NextCollision == CollisionStep \/ GatewayStep
SpecCollision == InitCollision /\ [][NextCollision]_vars

\* Both threads, in the long room.
InitLong == InitIn(LongRoom)
NextLong == LoopStep(LongRoom) \/ GatewayStep
SpecLong == InitLong /\ [][NextLong]_vars

\* audio_loop alone, in the room where a call may never return.
InitHang == InitIn(HangRoom)
NextHang == LoopStep(HangRoom) \/ CaptureHangs \/ ProviderHangs
SpecHang == InitHang /\ [][NextHang]_vars

\* audio_loop alone, in the room where Ctrl+C is pressed.
InitSignal == InitIn(SignalRoom)
NextSignal == LoopStep(SignalRoom) \/ InterruptSwallowed(SignalRoom) \/ InterruptStops
SpecSignal == InitSignal /\ [][NextSignal]_vars

\* audio_loop alone, in the room of the incomplete results.
InitIncomplete == InitIn(IncompleteRoom)
NextIncomplete == LoopStep(IncompleteRoom)
SpecIncomplete == InitIncomplete /\ [][NextIncomplete]_vars

\* audio_loop alone, in the room where every art service is down.
InitArtDown == InitIn(ArtDownRoom)
NextArtDown == LoopStep(ArtDownRoom)
SpecArtDown == InitArtDown /\ [][NextArtDown]_vars

\* audio_loop alone, in the room of the fingerprint provider.
InitFingerprint == InitIn(FingerprintRoom)
NextFingerprint == LoopStep(FingerprintRoom)
SpecFingerprint == InitFingerprint /\ [][NextFingerprint]_vars

-----------------------------------------------------------------------------
(* Properties *)

\* The seconds of a clock reading, from its "%H:%M:%S" string.
Seconds(str) == CHOOSE n \in 0..59 : strftime(n) = str

\* The URLs fetch_album_art can return.
ArtUrls == { CallSource(Sources[i], "found") : i \in 1..Len(Sources) }

\* t is a match the provider called name returns in the short room, as it
\* is or with the artwork fetch_album_art found for it when it had none.
ProviderMatch(name, t) ==
    \E resp \in ShortRoom.responses[name], mb \in ShortRoom.mb :
        LET r == CallProvider(name, flags, resp, mb) IN
        /\ IsMatch(r)
        /\ \/ t = r
           \/ /\ ~Truthy(r.album_art)
              /\ \E url \in ArtUrls : t = [r EXCEPT !.album_art = url]

\* C1: while the orchestrator or the cycle holds a match, the providers
\* invoked in the cycle are the services list up to the provider that
\* matched and none after it, and the match is the value that provider
\* returned, with nothing from another recognition provider in it.
C1_FirstMatchWins ==
    track_info # NoTrack =>
        /\ Len(calls) >= 1
        /\ calls = SubSeq(services, 1, Len(calls))
        /\ ProviderMatch(calls[Len(calls)], track_info)

\* The second of three enabled providers has matched: the third is not asked.
C1_Witness ==
    /\ pc = "reconcile"
    /\ services = <<"Shazam", "AudD", "AcoustID">>
    /\ calls = <<"Shazam", "AudD">>
    /\ track_info # NoTrack
    /\ track_info.service = "AudD"

\* C2: no exception leaves the orchestrator; while its loop runs, every
\* provider before the current position has been invoked, in order, without
\* a match; and a cycle result of None means every provider of the list was
\* invoked.
C2_FallThrough ==
    /\ pc # "crashed"
    /\ pc = "service" =>
          /\ track_info = NoTrack
          /\ svc_idx >= 1
          /\ calls = SubSeq(services, 1, svc_idx - 1)
    /\ (pc = "reconcile" /\ track_info = NoTrack) => calls = services

\* All three providers were asked and none matched: the cycle result is None.
C2_Witness ==
    /\ pc = "reconcile"
    /\ track_info = NoTrack
    /\ calls = <<"Shazam", "AudD", "AcoustID">>

\* C3: the step audio_loop takes on a match replaces current_track if and
\* only if the match differs from it in artist or title, whatever the
\* counter; the new current_track then has the match's artist and title; and
\* no other step changes current_track.
C3_PromotionIffChanged ==
    [][ /\ (pc = "changed" /\ pc' # "changed") =>
              LET differs == \/ track_info.artist # current_track.artist
                             \/ track_info.title # current_track.title
              IN  /\ (current_track' # current_track) <=> differs
                  /\ differs => /\ current_track'.artist = track_info.artist
                                /\ current_track'.title = track_info.title
        /\ current_track' # current_track => pc = "changed"
      ]_vars

\* A displayed track that had been identified twice in a row is replaced.
C3_Witness ==
    /\ pc = "insert"
    /\ track_history # <<>>
    /\ track_history[1].title = "Song 1"
    /\ current_track.title = "Song 3"
    /\ delay = ExtendedDelay

\* C4: at the end of a cycle the front of track_history is the track that
\* was displayed before the last promotion, the first promotion has added
\* nothing, and the displayed track is not in track_history.
C4_PreviousCurrentPushed ==
    pc = "record" =>
        /\ IF now <= 1 THEN track_history = <<>>
           ELSE /\ track_history # <<>>
                /\ track_history[1].time = strftime(now - 1)
        /\ \A i \in 1..Len(track_history) : track_history[i] # current_track

\* C5: the scenario.  After the first cycle Song 1 is displayed and
\* track_history is empty; after the second nothing was promoted, the
\* counter is 2 and the sleep was the extended one; after the third Song 2
\* is displayed, track_history is [Song 1], the counter is 1 and the sleep
\* was the normal one.
C5_Scenario ==
    pc = "record" =>
        /\ Len(script) = 2 =>
              /\ current_track.artist = "Artist A" /\ current_track.title = "Song 1"
              /\ track_history = <<>>
        /\ Len(script) = 1 =>
              /\ current_track.title = "Song 1" /\ current_track.time = strftime(1)
              /\ consecutive_match_count = 2
              /\ delay = ExtendedDelay
        /\ (Len(script) = 0 /\ now > 0) =>
              /\ current_track.artist = "Artist B" /\ current_track.title = "Song 2"
              /\ Len(track_history) = 1
              /\ track_history[1].artist = "Artist A"
              /\ track_history[1].title = "Song 1"
              /\ consecutive_match_count = 1
              /\ delay = NormalDelay

\* The pairs audio_loop leaves at the end of a cycle: nothing displayed and
\* an empty list, or the displayed track at the head of the list.
OnePair(track, history) ==
    IF history = <<>> THEN track = EmptyTrack ELSE history[1] = track

\* C6: the pair of current_track and track_history that index() passes to
\* the template is never torn: it is never a track from after a promotion
\* with the list from before it, nor the other way round.
C6_NoTornRead ==
    gw_pc = "index_render" => OnePair(gw_track, gw_history)

\* C7: at the end of every cycle track_history has at most 20 entries.
C7_HistoryBounded ==
    pc = "record" => Len(track_history) <= HistoryCap

\* The cycle of the 21st promotion has ended: the first track is gone.
C7_Witness ==
    /\ pc = "record"
    /\ now = HistoryCap + 1
    /\ Len(track_history) = HistoryCap
    /\ track_history[HistoryCap].time = strftime(2)

\* C8: the list index() passes to the template never has more than 20
\* entries.
C8_ReadableHistoryBounded ==
    gw_pc = "index_render" => Len(gw_history) <= HistoryCap

\* C9: track_history changes only in the two steps of a promotion: one entry
\* goes in at the front, the others keeping content and order, and the last
\* entry is dropped only from a list of more than 20; the entries are always
\* ordered by the time of their promotion, latest first.
C9_HistoryOrder ==
    /\ [](\A i, j \in 1..Len(track_history) :
            i < j => Seconds(track_history[i].time) > Seconds(track_history[j].time))
    /\ [][ track_history' # track_history =>
             \/ /\ pc = "insert"
                /\ Len(track_history') = Len(track_history) + 1
                /\ SubSeq(track_history', 2, Len(track_history')) = track_history
             \/ /\ pc = "truncate"
                /\ Len(track_history) > HistoryCap
                /\ track_history' = SubSeq(track_history, 1, HistoryCap)
         ]_vars

\* A promotion has just dropped the oldest entry of a full list.
C9_Witness ==
    /\ pc = "reset"
    /\ Len(track_history) = HistoryCap
    /\ track_history[1].time = strftime(HistoryCap + 2)
    /\ track_history[HistoryCap].time = strftime(3)

\* C10: at the end of every cycle the counter is at least 1 if
\* last_identified_track is set and 0 if it is None.
C10_CounterMatchesKey ==
    pc = "record" =>
        IF last_identified_track = None
        THEN consecutive_match_count = 0
        ELSE consecutive_match_count >= 1

\* A cycle without a match has ended after a track had been displayed.
C10_Witness ==
    /\ pc = "record"
    /\ current_track # EmptyTrack
    /\ last_identified_track = None
    /\ consecutive_match_count = 0
    /\ delay = NormalDelay

\* The match the cycle holds has the artist and title of t.
SamePair(t) ==
    /\ track_info # NoTrack
    /\ track_info.artist = t.artist
    /\ track_info.title = t.title

\* C11: a cycle that returns the (artist, title) the previous cycle returned
\* sleeps the extended time; a cycle with a match that follows the start, a
\* cycle whose identification returned nothing, or a cycle that returned a
\* different (artist, title) sleeps the normal time and leaves the counter
\* at 1.
C11_Debounce ==
    [][ (pc = "backoff" /\ pc' = "record"
         /\ prev.outcome \in {"none", "no_match", "match"}) =>
            IF prev.outcome = "match" /\ SamePair(prev)
            THEN delay' = ExtendedDelay
            ELSE delay' = NormalDelay /\ consecutive_match_count' = 1
      ]_vars

\* A run of one track, at least two cycles long, is ended by another track.
C11_Witness ==
    /\ pc = "backoff"
    /\ delay = ExtendedDelay
    /\ prev.outcome = "match"
    /\ prev.title = "Song 1"
    /\ track_info.title = "Song 3"
    /\ consecutive_match_count = 1

\* C12: a cycle whose identification result is None changes neither
\* current_track nor track_history at any step, and ends with
\* last_identified_track None, the counter 0 and the normal sleep.
C12_NoMatchFrame ==
    [][ /\ (pc \in {"record", "gate", "service"}
            \/ (pc = "reconcile" /\ track_info = NoTrack)) =>
               /\ current_track' = current_track
               /\ track_history' = track_history
        /\ (pc = "reconcile" /\ track_info = NoTrack /\ pc' # pc) =>
               /\ pc' = "record"
               /\ last_identified_track' = None
               /\ consecutive_match_count' = 0
               /\ delay' = NormalDelay
      ]_vars

\* A cycle without a match has ended while the second track is displayed.
C12_Witness ==
    /\ pc = "record"
    /\ prev.outcome = "no_match"
    /\ current_track.title = "Song 3"
    /\ Len(track_history) = 2
    /\ last_identified_track = None
    /\ delay = NormalDelay

\* C13: in a cycle whose match has the artist and title of current_track, no
\* step changes current_track or track_history, whatever the provider, the
\* album and the artwork of the match; the step after the debounce update
\* goes straight to the sleep.
C13_SameTrackFrame ==
    [][ ((pc \in {"reconcile", "changed"} /\ SamePair(current_track))
         \/ (pc = "backoff" /\ ~promoted)) =>
            /\ current_track' = current_track
            /\ track_history' = track_history
            /\ pc = "changed" => (pc' = "backoff" /\ ~promoted')
      ]_vars

\* The displayed track, identified by Shazam, is identified again by AudD
\* with another album and other artwork.
C13_Witness ==
    /\ pc = "backoff"
    /\ ~promoted
    /\ SamePair(current_track)
    /\ track_info.service = "AudD"
    /\ current_track.album = "Album 1 (Shazam)"
    /\ track_info.album # current_track.album
    /\ track_info.album_art # current_track.album_art
    /\ consecutive_match_count = 2

\* C14: a cycle that has promoted a track ends with the counter at 1 and the
\* normal sleep.
C14_PromotionBackoff ==
    [][ (pc = "backoff" /\ promoted /\ pc' = "record") =>
            /\ consecutive_match_count' = 1
            /\ delay' = NormalDelay
      ]_vars

\* The third promotion of a run is about to sleep, after a cycle that slept
\* the extended time.
C14_Witness ==
    /\ pc = "backoff"
    /\ promoted
    /\ Len(track_history) = 3
    /\ current_track.time = strftime(3)
    /\ delay = ExtendedDelay

\* C15: when the device delivered nothing or zeros only, wav_data is None, no
\* recognition service and no art source is called in the cycle, and the
\* cycle ends at once with current_track and track_history as they were.
C15_NoAudioShortCircuit ==
    /\ [](~Truthy(wav_data) =>
            /\ pc \in {"record", "gate"}
            /\ calls = <<>>
            /\ art_calls = <<>>)
    /\ [][ (pc = "gate" /\ recording \in {"all_zero", "device_error"}) =>
             /\ ~Truthy(wav_data)
             /\ pc' = "record"
             /\ calls' = <<>>
             /\ art_calls' = <<>>
             /\ current_track' = current_track
             /\ track_history' = track_history
         ]_vars

\* A cycle without audio has ended while a track is displayed.
C15_Witness ==
    /\ pc = "record"
    /\ prev.outcome = "no_audio"
    /\ delay = RetryDelay
    /\ current_track # EmptyTrack
    /\ track_history # <<>>

\* C16: after a cycle without a match, a cycle without audio included,
\* last_identified_track is None and the counter is 0.
C16_NoMatchResets ==
    (pc = "record" /\ prev.outcome \in {"no_match", "no_audio"}) =>
        /\ last_identified_track = None
        /\ consecutive_match_count = 0

\* C17: whatever the analysis of a recording that is not zeros only finds,
\* record_chunk returns its WAV bytes and the cycle goes on to the
\* orchestrator.
C17_DiagnosticsAdvisory ==
    [][ (pc = "gate" /\ recording \notin {"all_zero", "device_error"}) =>
            /\ Truthy(wav_data)
            /\ pc' = "service"
      ]_vars

\* A recording on which the correlation of the channels cannot be computed
\* has been returned as WAV bytes.
C17_Witness ==
    /\ pc = "gate"
    /\ recording = "corr_error"
    /\ wav_data = "wav"

\* C18: the art sources called are iTunes, Last.fm, MusicBrainz in this order
\* up to the first that returns a URL; that URL is the artwork of the match;
\* when none returns one all three were called, the match stays without
\* artwork and is still the result of the cycle.
C18_ArtFallback ==
    /\ art_calls = SubSeq(Sources, 1, Len(art_calls))
    /\ pc = "art" =>
          /\ art_idx = Len(art_calls) + 1
          /\ track_info # NoTrack
          /\ ~Truthy(track_info.album_art)
    /\ (pc # "art" /\ art_calls # <<>>) =>
          /\ track_info # NoTrack
          /\ IF Truthy(track_info.album_art)
             THEN track_info.album_art = CallSource(art_calls[Len(art_calls)], "found")
             ELSE art_calls = Sources

\* iTunes had nothing, Last.fm had the artwork: MusicBrainz is not asked.
C18_Witness ==
    /\ pc = "reconcile"
    /\ art_calls = <<"iTunes", "Last.fm">>
    /\ track_info.album_art = "Last.fm/art.jpg"

\* C19: an art source is called only in a cycle with a match whose provider
\* returned no artwork; a match that came with artwork keeps that URL and no
\* art source is called for it.
C19_EnrichOnlyWithoutArt ==
    /\ art_calls # <<>> =>
          /\ track_info # NoTrack
          /\ ~Truthy(track_info.album_art) \/ track_info.album_art \in ArtUrls
    /\ pc = "art" => track_info # NoTrack /\ ~Truthy(track_info.album_art)
    /\ (track_info # NoTrack /\ Truthy(track_info.album_art)
        /\ track_info.album_art \notin ArtUrls) =>
          /\ art_calls = <<>>
          /\ \E resp \in ShortRoom.responses[track_info.service], mb \in ShortRoom.mb :
                CallProvider(track_info.service, flags, resp, mb) = track_info

\* AudD has returned a match with its own artwork: no art source is asked.
C19_Witness ==
    /\ pc = "reconcile"
    /\ calls = <<"Shazam", "AudD">>
    /\ track_info # NoTrack
    /\ track_info.album_art = "AudD/song1.jpg"
    /\ art_calls = <<>>

\* The default order of the recognition providers.
Priority == <<"Shazam", "AudD", "AcoustID">>

\* The provider is switched on and, for Shazam, installed.
Usable(name) ==
    CASE name = "Shazam"   -> flags.SHAZAMIO_AVAILABLE /\ flags.USE_SHAZAM_API
      [] name = "AudD"     -> flags.USE_AUDD_API
      [] name = "AcoustID" -> flags.USE_ACOUSTID_FALLBACK

C21_OncePerCycle ==
    /\ \A i, j \in 1..Len(calls) : i # j => calls[i] # calls[j]
    /\ pc = "service" => Len(calls) = svc_idx - 1
    /\ pc \in {"art", "reconcile"} /\ track_info # NoTrack => Len(calls) = svc_idx
    /\ pc \in {"record", "gate"} =>
          /\ calls = <<>>
          /\ art_calls = <<>>
          /\ track_info = NoTrack
          /\ services = <<>>

\* Shazam is not installed: AudD and AcoustID have each been asked once,
\* without a match.
C21_Witness ==
    /\ pc = "service"
    /\ ~flags.SHAZAMIO_AVAILABLE
    /\ services = <<"AudD", "AcoustID">>
    /\ calls = <<"AudD", "AcoustID">>
    /\ svc_idx = 3

\* C22: no call of a cycle blocks for ever: whatever the device and the
\* providers do, audio_loop always has a next step to take.
C22_NoStall == ENABLED LoopStep(HangRoom)

\* C23: once Ctrl+C has been pressed audio_loop has stopped: it starts no
\* cycle and writes no global any more.
C23_InterruptStops == interrupted => pc = "stopped"

\* C24: audio_loop never ends and never fails: whatever the capture, the
\* providers and the art sources answer, each cycle is followed by another.
C24_LoopGoesOn ==
    /\ [](pc \notin {"crashed", "returned", "stopped", "hung"})
    /\ []<>(pc = "record")
    /\ []<>(pc = "gate")

\* A cycle in which every provider failed to match is about to end, after a
\* cycle in which the device failed.
C24_Witness ==
    /\ pc = "reconcile"
    /\ track_info = NoTrack
    /\ Len(calls) = 3
    /\ prev.outcome = "no_audio"
    /\ heard.outcome = "match"

\* C25: the sleep that ended the last cycle is 2 s if the cycle had no audio,
\* 8 s if it had no match, and after a match 30 s if the counter, as the
\* cycle left it, is 2 or more and 8 s if it is less.
C25_DelayOfOutcome ==
    pc = "record" =>
        CASE prev.outcome = "none"     -> delay = 0
          [] prev.outcome = "no_audio" -> delay = 2
          [] prev.outcome = "no_match" -> delay = 8
          [] prev.outcome = "match"    ->
                delay = IF consecutive_match_count >= 2 THEN 30 ELSE 8

\* The third cycle in a row that returned the displayed track has ended.
C25_Witness ==
    /\ pc = "record"
    /\ prev.outcome = "match"
    /\ consecutive_match_count = 3
    /\ delay = 30

\* C26: the debounce update counts a match as a repetition exactly when its
\* artist and its title are those of the match before it: after the update
\* the counter is 2 or more if and only if the last cycle that returned
\* something returned the same (artist, title).
C26_PairComparison ==
    (pc = "changed" /\ heard.outcome = "match") =>
        (consecutive_match_count >= 2 <=> SamePair(heard))

\* C27: current_track is the empty track exactly as long as no track has
\* been promoted; it is assigned only by the promotion step of a cycle with a
\* match, and then gets the artist, the title, the album and the album art of
\* that match.
C27_CurrentIsLastPromoted ==
    /\ [](current_track = EmptyTrack <=> now = 0)
    /\ [][ current_track' # current_track =>
             /\ pc = "changed"
             /\ promoted'
             /\ track_info # NoTrack
             /\ current_track'.artist = track_info.artist
             /\ current_track'.title = track_info.title
             /\ current_track'.album = Get(track_info, "album", "Unknown Album")
             /\ current_track'.album_art = Get(track_info, "album_art", "")
             /\ current_track'.time = strftime(now')
         ]_vars

\* A match that came without album and without artwork, for which iTunes
\* had the artwork, has been promoted.
C27_Witness ==
    /\ pc = "insert"
    /\ promoted
    /\ current_track.artist = "Artist A"
    /\ current_track.title = "Song 1"
    /\ current_track.album = "Unknown Album"
    /\ current_track.album_art = "iTunes/art.jpg"

\* C28: a step of index() or of nowplaying_api() changes none of
\* current_track, track_history, last_identified_track and
\* consecutive_match_count, wherever audio_loop is at that moment, and does
\* not move audio_loop.
C28_HandlersOnlyRead ==
    [][ gw_pc' # gw_pc =>
            /\ current_track' = current_track
            /\ track_history' = track_history
            /\ last_identified_track' = last_identified_track
            /\ consecutive_match_count' = consecutive_match_count
            /\ pc' = pc
      ]_vars

\* index() has read both globals while audio_loop is in the middle of its
\* second promotion.
C28_Witness ==
    /\ gw_pc = "index_render"
    /\ pc = "truncate"
    /\ Len(track_history) = 2
    /\ gw_track = current_track
    /\ gw_history = track_history

\* C29: at the end of every cycle last_identified_track is None or the
\* string artist + " - " + title of current_track.
C29_KeyIsDisplayed ==
    (pc = "record" /\ last_identified_track # None) =>
        last_identified_track = current_track.artist \o " - " \o current_track.title

\* The second track is displayed and was the last identified; the cycle
\* that has just ended had no audio.
C29_Witness ==
    /\ pc = "record"
    /\ prev.outcome = "no_audio"
    /\ current_track.title = "Song 3"
    /\ last_identified_track = "Artist A - Song 3"
    /\ Len(track_history) = 2

\* C30: a cycle ends with the extended sleep if and only if it returned a
\* match whose artist and title are those of the match returned by the last
\* earlier cycle that reached the orchestrator; cycles without audio in
\* between change nothing in this.
C30_ExtendedIffRepeated ==
    [][ (pc # "record" /\ pc' = "record") =>
            (delay' = ExtendedDelay <=>
                /\ Truthy(wav_data)
                /\ heard.outcome = "match"
                /\ SamePair(heard))
      ]_vars

\* The displayed track is returned again after a cycle without audio: the
\* counter is at 2.
C30_Witness ==
    /\ pc = "backoff"
    /\ prev.outcome = "no_audio"
    /\ heard.outcome = "match"
    /\ SamePair(heard)
    /\ consecutive_match_count = 2

\* C31: at the end of every cycle, if a track is displayed, the first entry
\* of track_history has the artist, the title and the start time of
\* current_track.
C31_FrontIsCurrent ==
    (pc = "record" /\ current_track # EmptyTrack) =>
        /\ track_history # <<>>
        /\ track_history[1].artist = current_track.artist
        /\ track_history[1].title = current_track.title
        /\ track_history[1].time = current_track.time

\* The cycle of the 22nd promotion has ended: the list has overflowed twice
\* and its front is the track that promotion displayed.
C31_Witness ==
    /\ pc = "record"
    /\ prev.outcome = "match"
    /\ now = HistoryCap + 2
    /\ Len(track_history) = HistoryCap
    /\ current_track.time = strftime(HistoryCap + 2)
    /\ track_history[1] = current_track

\* C32: any two adjacent entries of track_history differ in artist or in
\* title, at every moment of every run.
C32_NoAdjacentRepeat ==
    \A i \in 1..(Len(track_history) - 1) :
        \/ track_history[i].artist # track_history[i + 1].artist
        \/ track_history[i].title # track_history[i + 1].title

\* The list is full, and the cycle that has just ended identified the
\* displayed track for the second time in a row without adding an entry.
C32_Witness ==
    /\ pc = "record"
    /\ prev.outcome = "match"
    /\ consecutive_match_count = 2
    /\ Len(track_history) = HistoryCap
    /\ track_history[1].title = "Song 1"
    /\ track_history[2].title = "Song 3"
    /\ track_history[3].title = "Song 1"

\* C33: the match the orchestrator holds always has an artist and a title
\* that are not empty; a call that does not give one leaves the orchestrator
\* at the next provider, so that Shazam, whose results lack the artist or the
\* title in this room, never provides the match of a cycle; every track in
\* current_track and in track_history has an artist and a title that are not
\* empty; and the match of a cycle that finds nothing displayed is promoted.
C33_MatchNeedsBoth ==
    /\ [](track_info # NoTrack =>
            /\ Truthy(track_info.artist)
            /\ Truthy(track_info.title)
            /\ track_info.service # "Shazam")
    /\ [][ Len(calls') > Len(calls) =>
             \/ track_info' # NoTrack
             \/ /\ track_info' = NoTrack
                /\ pc' = "service"
                /\ svc_idx' = svc_idx + 1
         ]_vars
    /\ [](/\ current_track # EmptyTrack =>
               Truthy(current_track.artist) /\ Truthy(current_track.title)
          /\ \A i \in 1..Len(track_history) :
               Truthy(track_history[i].artist) /\ Truthy(track_history[i].title))
    /\ [][ (pc = "changed" /\ current_track = EmptyTrack) =>
              (promoted' /\ pc' = "insert" /\ current_track' # EmptyTrack)
         ]_vars

\* Shazam has returned a result without artist or title, AudD has matched,
\* and this first match since the start has been promoted.
C33_Witness ==
    /\ pc = "insert"
    /\ promoted
    /\ now = 1
    /\ track_history = <<>>
    /\ calls = <<"Shazam", "AudD">>
    /\ track_info.service = "AudD"
    /\ current_track.artist = "Artist A"
    /\ current_track.title = "Song 1"

\* The recognition provider a match came from.
ProviderOf(t) == IF t.service = "MusicBrainz" THEN "AcoustID" ELSE t.service

\* C34: with every art source in error, a failed art lookup leaves the match
\* as the provider returned it; once all three have failed the orchestrator
\* returns that match, still without artwork; and from the match to the end
\* of the cycle no recognition provider is invoked: the providers invoked are
\* those of the list up to the one that matched.
C34_EnrichmentNeverFallsThrough ==
    /\ [][ pc = "art" =>
             /\ track_info' = track_info
             /\ calls' = calls
             /\ pc' \in {"art", "reconcile"}
         ]_vars
    /\ [][ track_info # NoTrack => (calls' = calls \/ pc' = "record") ]_vars
    /\ [](art_calls # <<>> =>
            /\ track_info # NoTrack
            /\ ~Truthy(track_info.album_art)
            /\ calls = SubSeq(services, 1, Len(calls))
            /\ calls[Len(calls)] = ProviderOf(track_info)
            /\ pc # "art" => art_calls = Sources)

\* Shazam has matched without artwork, iTunes, Last.fm and MusicBrainz have
\* all failed, and the match has been returned: AudD and AcoustID, next in
\* the list, were not asked.
C34_Witness ==
    /\ pc = "reconcile"
    /\ services = <<"Shazam", "AudD", "AcoustID">>
    /\ calls = <<"Shazam">>
    /\ art_calls = Sources
    /\ track_info # NoTrack
    /\ track_info.service = "Shazam"
    /\ track_info.title = "Song 1"
    /\ track_info.album_art = None

\* The two tracks the scenario promotes, as audio_loop displays them: Song 1
\* at the first reading of the clock and Song 2 at the second.
ScenarioTrack(k) ==
    NewCurrent(lookup_shazam(DefaultFlags, ScenarioRoom.script[IF k = 1 THEN 1 ELSE 3]),
               strftime(k))

\* C35: the dict a handler has read from current_track is, at every moment
\* of the request, the initial empty one or one of the promoted tracks, whole:
\* artist, title, time, album and album art of one and the same promotion.
C35_NoHalfUpdatedCurrent ==
    gw_track # NoTrack => gw_track \in {EmptyTrack, ScenarioTrack(1), ScenarioTrack(2)}

\* nowplaying_api() has read current_track in the middle of the second
\* promotion, after the assignment and before the insertion in the list.
C35_Witness ==
    /\ gw_pc = "api_respond"
    /\ pc = "insert"
    /\ now = 2
    /\ track_history # <<>>
    /\ track_history[1].title = "Song 1"
    /\ gw_track = ScenarioTrack(2)
    /\ gw_track.album = "Album 2 (Shazam)"

\* C36: for every recording with artist and title AcoustID returns and every
\* outcome of the MusicBrainz lookup, lookup_acoustid returns a match with an
\* artist and a title, and when that lookup failed or came back empty the
\* match is AcoustID's own data; so every call of the fingerprint provider in
\* this room, where AcoustID always has such a recording, ends with a match.
C36_AcoustIDSurvivesMusicBrainz ==
    /\ [](\A resp \in FingerprintRoom.responses["AcoustID"], mb \in FingerprintRoom.mb :
            LET r == lookup_acoustid(flags, resp, mb) IN
            /\ r # NoTrack
            /\ Truthy(r.artist)
            /\ Truthy(r.title)
            /\ mb \in {"empty", "error"} =>
                  /\ r.service = "AcoustID"
                  /\ r.artist = resp.artist
                  /\ r.title = resp.title)
    /\ [][ (pc = "service" /\ Len(calls') > Len(calls)
            /\ calls'[Len(calls')] = "AcoustID") =>
              /\ track_info' # NoTrack
              /\ pc' \in {"art", "reconcile"}
              /\ track_info'.service \in {"AcoustID", "MusicBrainz"}
              /\ track_info'.service = "MusicBrainz" => flags.USE_MUSICBRAINZ_DIRECT
         ]_vars

\* The recording came with an id and the direct lookup is switched on, so
\* MusicBrainz was asked; the match returned is AcoustID's, so it gave
\* nothing.
C36_Witness ==
    /\ pc = "reconcile"
    /\ flags.USE_MUSICBRAINZ_DIRECT
    /\ calls = <<"Shazam", "AudD", "AcoustID">>
    /\ track_info # NoTrack
    /\ track_info.service = "AcoustID"
    /\ track_info.mbid = "mbid"
    /\ track_info.title = "Song 1"
    /\ track_info.album = "Album 1 (AcoustID)"

====
